---- MODULE Spec2Model ----
(***************************************************************************)
(* The channel-token FIFO queue of src/queue.go (FiFo[T]).                 *)
(*                                                                         *)
(* The queue is two buffered channels of capacity 1: `items` carries the   *)
(* slice of queued elements, `empty` carries a unit token.  Every          *)
(* operation is a goroutine that receives from a channel (a select), works *)
(* on its local slice and sends a token back.  One action of the model is  *)
(* one channel operation of one goroutine together with the local          *)
(* computation that follows it; a Go select with several ready cases can   *)
(* take any of them, so each case is an action of its own.                 *)
(*                                                                         *)
(* Elements are opaque to the queue (the code never inspects a T), so each *)
(* Put/TryPut call carries a fresh element: the elements are numbered in   *)
(* the order of the calls.                                                 *)
(*                                                                         *)
(* The module also holds the mutex-plus-slice FiFo as operators, and small *)
(* state machines of SyncPool[T] (src/sync.go) and Atomic[T]               *)
(* (src/atomic.go), each with a specification of its own.                  *)
(***************************************************************************)
EXTENDS Integers, Sequences, FiniteSets, TLC

\* Bounds of the model.
NumProcs == 2
MaxPuts == 3
NumProducers == 2
NumConsumers == 2
ItemsPerProducer == 2

NumPoolVals == 2
MaxStack == 12
NumHandles == 3
MaxCells == 2
NumAtomVals == 1

\* make(chan []T, 1) and make(chan struct{}, 1)
ItemsCap == 1
EmptyCap == 1
\* var zero T
Zero == 0
\* a.load == nil: the zero Atomic has no closures and so no storage
NoCell == 0

VARIABLES
    items,      \* q.items: the buffer of the channel, a sequence of slices
    empty,      \* q.empty: the number of unit tokens in the channel's buffer
    pc,         \* per goroutine: "idle", "select", "send", "ret", "done", "panic", "exit"
    op,         \* per goroutine: the method it is executing
    ctx,        \* per goroutine: the call's context: "none", "never", "live", "fired"
    arg,        \* per goroutine: x (Put/TryPut: the argument; Get/TryGet: s[0])
    s,          \* per goroutine: the local slice s (items in Size, s in Snapshot)
    took,       \* per goroutine: the select case taken: "none", "items", "empty"
    ret,        \* per goroutine: what the call returned
    issued,     \* the elements handed to Put/TryPut calls so far
    committed,  \* history: elements appended, in the order of token acquisition
    delivered,  \* history: elements removed by Get/TryGet, in the order of token acquisition
    phase,      \* "run", then "put" and "get": a final Put and Get on the quiescent queue
    produced,   \* TestFiFo_ConcurrentAccess: the channel `produced`
    collected,  \* TestFiFo_ConcurrentAccess: the channel `collected`
    poolNew,    \* SyncPool: the field New: whether it is set, and what the function returns
    poolItems,  \* SyncPool: the values held by the underlying sync.Pool
    poolPc,     \* SyncPool caller: "idle", "Get", "Put", "done", "panic", "fatal"
    poolOp,     \* SyncPool caller: the method called last
    poolArg,    \* SyncPool caller: x of Put(x)
    poolRet,    \* SyncPool caller: what Get returned
    poolDepth,  \* SyncPool caller: the number of nested frames of Put
    avalue,     \* Atomic: per storage cell, the atomic.Value `a` captured by the closures
    anext,      \* Atomic: the number of cells MakeAtomic has allocated
    acell,      \* Atomic: per variable of type Atomic[T], the cell its closures capture
    aorigin,    \* Atomic: per variable, the MakeAtomic call its value was copied from
    alast       \* Atomic: the last call made and what it returned

local == <<pc, op, ctx, arg, s, took, ret>>
chans == <<items, empty>>
hist == <<issued, committed, delivered>>
harness == <<phase, produced, collected>>
poolvars == <<poolNew, poolItems, poolPc, poolOp, poolArg, poolRet, poolDepth>>
atomvars == <<avalue, anext, acell, aorigin, alast>>
libs == <<poolvars, atomvars>>
queuevars == <<chans, local, hist, harness>>
vars == <<items, empty, pc, op, ctx, arg, s, took, ret, issued, committed, delivered,
          phase, produced, collected,
          poolNew, poolItems, poolPc, poolOp, poolArg, poolRet, poolDepth,
          avalue, anext, acell, aorigin, alast>>

Procs == 1..NumProcs
Producers == 1..NumProducers
Consumers == (NumProducers + 1)..(NumProducers + NumConsumers)
\* The goroutine that makes the final Put and Get: the first one.
Prober == CHOOSE p \in Procs : \A q \in Procs : p <= q
ProbeElem == MaxPuts + 1

NoRet == [val |-> 0, seq |-> <<>>, st |-> "none"]

\* The goroutines of the running specification.
Threads == DOMAIN pc

----------------------------------------------------------------------------
(* Channels and contexts.                                                  *)

CanRecvItems == Len(items) > 0
CanRecvEmpty == empty > 0
CanSendItems == Len(items) < ItemsCap
CanSendEmpty == empty < EmptyCap

\* <-ctx.Done() can proceed
CtxDone(p) == ctx[p] = "fired"
\* ctx.Err()
CtxErr(p) == IF ctx[p] = "fired" THEN "cancelled" ELSE "nil"

\* Mutant: the element is put at the head.
PutPrepend(sl, x) == <<x>> \o sl
\* s = append(s, x)
PutAppend(sl, x) == Append(sl, x)
\* Mutant: the element handed out is the newest one.
GetHeadLast(sl) == sl[Len(sl)]
\* x := s[0]
GetHead(sl) == Head(sl)
\* Mutant: the head is read and not removed.
GetRestKeep(sl) == sl
\* s = s[1:]
GetRest(sl) == Tail(sl)
\* Mutant: the copy is filled from the back.
SnapCopyReversed(sl) == [i \in 1..Len(sl) |-> sl[Len(sl) + 1 - i]]
\* cp := append([]T(nil), s...)
SnapCopy(sl) == [i \in 1..Len(sl) |-> sl[i]]
\* Mutant: the hint looks at q.items instead.
EmptyPeekItemsVacant == Len(items) = 0
\* len(q.empty) == 1
EmptyPeek == empty = 1

----------------------------------------------------------------------------
(* NewFiFo: both channels made, the unit token sent into `empty`.          *)

InitQueue ==
    /\ items = <<>>
    /\ empty = 1

InitLocal(T) ==
    /\ pc = [p \in T |-> "idle"]
    /\ op = [p \in T |-> "none"]
    /\ ctx = [p \in T |-> "none"]
    /\ arg = [p \in T |-> 0]
    /\ s = [p \in T |-> <<>>]
    /\ took = [p \in T |-> "none"]
    /\ ret = [p \in T |-> NoRet]

InitHist ==
    /\ issued = {}
    /\ committed = <<>>
    /\ delivered = <<>>
    /\ phase = "run"
    /\ produced = {}
    /\ collected = <<>>

\* pool := &SyncPool[T]{}
InitPool ==
    /\ poolNew = [set |-> FALSE, isT |-> TRUE, v |-> Zero]
    /\ poolItems = <<>>
    /\ poolPc = "idle"
    /\ poolOp = "none"
    /\ poolArg = Zero
    /\ poolRet = Zero
    /\ poolDepth = 0

\* var av Atomic[T]: every variable starts as the zero Atomic
InitAtomic ==
    /\ avalue = [c \in 1..MaxCells |-> [set |-> FALSE, v |-> Zero]]
    /\ anext = 0
    /\ acell = [h \in 1..NumHandles |-> NoCell]
    /\ aorigin = [h \in 1..NumHandles |-> NoCell]
    /\ alast = [op |-> "none", h |-> 1, x |-> Zero, ret |-> Zero, ok |-> TRUE, st |-> "ok"]

InitLibs == InitPool /\ InitAtomic

Init == InitQueue /\ InitLocal(Procs) /\ InitHist /\ InitLibs

----------------------------------------------------------------------------
(* A goroutine calls a method.                                             *)

Callable(p) == pc[p] \in {"idle", "done"}

Call(p, o, c, x) ==
    /\ pc' = [pc EXCEPT ![p] = "select"]
    /\ op' = [op EXCEPT ![p] = o]
    /\ ctx' = [ctx EXCEPT ![p] = c]
    /\ arg' = [arg EXCEPT ![p] = x]
    /\ s' = [s EXCEPT ![p] = <<>>]
    /\ took' = [took EXCEPT ![p] = "none"]
    /\ ret' = [ret EXCEPT ![p] = NoRet]
    /\ UNCHANGED chans

CallFresh(p, o, c) ==
    /\ Cardinality(issued) < MaxPuts
    /\ Call(p, o, c, Cardinality(issued) + 1)
    /\ issued' = issued \cup {Cardinality(issued) + 1}
    /\ UNCHANGED <<committed, delivered, harness, libs>>

PutCall(p) ==
    /\ phase = "run" /\ Callable(p)
    /\ \E c \in {"never", "live", "fired"} : CallFresh(p, "Put", c)

TryPutCall(p) ==
    /\ phase = "run" /\ Callable(p)
    /\ CallFresh(p, "TryPut", "none")

GetCall(p) ==
    /\ phase = "run" /\ Callable(p)
    /\ \E c \in {"never", "live", "fired"} : Call(p, "Get", c, 0)
    /\ UNCHANGED <<hist, harness, libs>>

TryGetCall(p) ==
    /\ phase = "run" /\ Callable(p)
    /\ Call(p, "TryGet", "none", 0)
    /\ UNCHANGED <<hist, harness, libs>>

SizeCall(p) ==
    /\ phase = "run" /\ Callable(p)
    /\ Call(p, "Size", "none", 0)
    /\ UNCHANGED <<hist, harness, libs>>

SnapshotCall(p) ==
    /\ phase = "run" /\ Callable(p)
    /\ \E c \in {"never", "live", "fired"} : Call(p, "Snapshot", c, 0)
    /\ UNCHANGED <<hist, harness, libs>>

IsEmptyCall(p) ==
    /\ phase = "run" /\ Callable(p)
    /\ Call(p, "IsEmpty", "none", 0)
    /\ UNCHANGED <<hist, harness, libs>>

\* The context of a call in progress is cancelled, or its deadline passes.
Cancel(p) ==
    /\ ctx[p] = "live"
    /\ pc[p] \in {"select", "send", "ret"}
    /\ ctx' = [ctx EXCEPT ![p] = "fired"]
    /\ UNCHANGED <<chans, pc, op, arg, s, took, ret, hist, harness, libs>>

----------------------------------------------------------------------------
(* Steps shared by the methods.                                            *)

At(p, o, l) == pc[p] = l /\ op[p] = o

\* The goroutine goes on to `l` with local slice `sl`, having taken case `t`.
Goto(p, l, sl, t) ==
    /\ pc' = [pc EXCEPT ![p] = l]
    /\ s' = [s EXCEPT ![p] = sl]
    /\ took' = [took EXCEPT ![p] = t]

\* The call returns.
Return(p, r) ==
    /\ pc' = [pc EXCEPT ![p] = "done"]
    /\ s' = [s EXCEPT ![p] = <<>>]
    /\ ret' = [ret EXCEPT ![p] = r]

\* case <-ctx.Done(): return zero, ctx.Err()
Cancelled(p, o) ==
    /\ At(p, o, "select")
    /\ CtxDone(p)
    /\ Return(p, [NoRet EXCEPT !.st = CtxErr(p)])
    /\ UNCHANGED <<chans, op, ctx, arg, took, hist, harness, libs>>

----------------------------------------------------------------------------
(* Put                                                                     *)

\* Mutant: the queue is bounded and a Put waits while it holds two elements.
PutRecvItemsBounded(p) ==
    /\ At(p, "Put", "select")
    /\ CanRecvItems
    /\ Len(Head(items)) < 2
    /\ items' = Tail(items)
    /\ Goto(p, "send", PutAppend(Head(items), arg[p]), "items")
    /\ committed' = Append(committed, arg[p])
    /\ UNCHANGED <<empty, op, ctx, arg, ret, issued, delivered, harness, libs>>

PutRecvItems(p) ==
    /\ At(p, "Put", "select")
    /\ CanRecvItems
    /\ items' = Tail(items)
    /\ Goto(p, "send", PutAppend(Head(items), arg[p]), "items")
    /\ committed' = Append(committed, arg[p])
    /\ UNCHANGED <<empty, op, ctx, arg, ret, issued, delivered, harness, libs>>

\* Mutant: the empty case only looks at q.empty and leaves the token there.
PutRecvEmptyPeek(p) ==
    /\ At(p, "Put", "select")
    /\ CanRecvEmpty
    /\ Goto(p, "send", PutAppend(<<>>, arg[p]), "empty")
    /\ committed' = Append(committed, arg[p])
    /\ UNCHANGED <<chans, op, ctx, arg, ret, issued, delivered, harness, libs>>

PutRecvEmpty(p) ==
    /\ At(p, "Put", "select")
    /\ CanRecvEmpty
    /\ empty' = empty - 1
    /\ Goto(p, "send", PutAppend(<<>>, arg[p]), "empty")
    /\ committed' = Append(committed, arg[p])
    /\ UNCHANGED <<items, op, ctx, arg, ret, issued, delivered, harness, libs>>

PutCancelled(p) == Cancelled(p, "Put")

\* Mutant: the republish races with ctx.Done() and gives up when it is cancelled.
PutSendUnlessCancelled(p) ==
    /\ At(p, "Put", "send")
    /\ IF CtxDone(p)
       THEN /\ Return(p, [NoRet EXCEPT !.st = CtxErr(p)])
            /\ UNCHANGED <<chans, took>>
       ELSE /\ CanSendItems
            /\ items' = Append(items, s[p])
            /\ Goto(p, "ret", <<>>, took[p])
            /\ UNCHANGED <<empty, ret>>
    /\ UNCHANGED <<op, ctx, arg, hist, harness, libs>>

\* Mutant: a Put that took the unit token sends it back, as Size does.
PutSendUnitBack(p) ==
    /\ At(p, "Put", "send")
    /\ IF took[p] = "items"
       THEN CanSendItems /\ items' = Append(items, s[p]) /\ UNCHANGED empty
       ELSE CanSendEmpty /\ empty' = empty + 1 /\ UNCHANGED items
    /\ Goto(p, "ret", <<>>, took[p])
    /\ UNCHANGED <<op, ctx, arg, ret, hist, harness, libs>>

\* q.items <- s
PutSend(p) ==
    /\ At(p, "Put", "send")
    /\ CanSendItems
    /\ items' = Append(items, s[p])
    /\ Goto(p, "ret", <<>>, took[p])
    /\ UNCHANGED <<empty, op, ctx, arg, ret, hist, harness, libs>>

\* Mutant: success is reported unconditionally once committed.
PutReturnNil(p) ==
    /\ At(p, "Put", "ret")
    /\ Return(p, [NoRet EXCEPT !.st = "nil"])
    /\ UNCHANGED <<chans, op, ctx, arg, took, hist, harness, libs>>

\* return ctx.Err()
PutReturn(p) ==
    /\ At(p, "Put", "ret")
    /\ Return(p, [NoRet EXCEPT !.st = CtxErr(p)])
    /\ UNCHANGED <<chans, op, ctx, arg, took, hist, harness, libs>>

----------------------------------------------------------------------------
(* TryPut                                                                  *)

\* Mutant: the received slice is replaced by a slice of the new element alone.
TryPutRecvItemsReplace(p) ==
    /\ At(p, "TryPut", "select")
    /\ CanRecvItems
    /\ items' = Tail(items)
    /\ Goto(p, "send", <<arg[p]>>, "items")
    /\ committed' = Append(committed, arg[p])
    /\ UNCHANGED <<empty, op, ctx, arg, ret, issued, delivered, harness, libs>>

TryPutRecvItems(p) ==
    /\ At(p, "TryPut", "select")
    /\ CanRecvItems
    /\ items' = Tail(items)
    /\ Goto(p, "send", PutAppend(Head(items), arg[p]), "items")
    /\ committed' = Append(committed, arg[p])
    /\ UNCHANGED <<empty, op, ctx, arg, ret, issued, delivered, harness, libs>>

\* Mutant: the empty case only looks at q.empty and leaves the token there.
TryPutRecvEmptyPeek(p) ==
    /\ At(p, "TryPut", "select")
    /\ CanRecvEmpty
    /\ Goto(p, "send", <<arg[p]>>, "empty")
    /\ committed' = Append(committed, arg[p])
    /\ UNCHANGED <<chans, op, ctx, arg, ret, issued, delivered, harness, libs>>

TryPutRecvEmpty(p) ==
    /\ At(p, "TryPut", "select")
    /\ CanRecvEmpty
    /\ empty' = empty - 1
    /\ Goto(p, "send", <<arg[p]>>, "empty")
    /\ committed' = Append(committed, arg[p])
    /\ UNCHANGED <<items, op, ctx, arg, ret, issued, delivered, harness, libs>>

\* Mutant: TryPut has no case for q.empty and gives up when q.items is vacant.
TryPutDefaultNoEmptyCase(p) ==
    /\ At(p, "TryPut", "select")
    /\ ~CanRecvItems
    /\ Return(p, [NoRet EXCEPT !.st = "false"])
    /\ UNCHANGED <<chans, op, ctx, arg, took, hist, harness, libs>>

\* default: return false
TryPutDefault(p) ==
    /\ At(p, "TryPut", "select")
    /\ ~CanRecvItems /\ ~CanRecvEmpty
    /\ Return(p, [NoRet EXCEPT !.st = "false"])
    /\ UNCHANGED <<chans, op, ctx, arg, took, hist, harness, libs>>

\* q.items <- s; return true
TryPutSend(p) ==
    /\ At(p, "TryPut", "send")
    /\ CanSendItems
    /\ items' = Append(items, s[p])
    /\ Return(p, [NoRet EXCEPT !.st = "true"])
    /\ UNCHANGED <<empty, op, ctx, arg, took, hist, harness, libs>>

----------------------------------------------------------------------------
(* Get                                                                     *)

\* s = <-q.items; x := s[0]; s = s[1:]   (s[0] of an empty slice panics)
RecvHead(p, o) ==
    /\ At(p, o, "select")
    /\ CanRecvItems
    /\ items' = Tail(items)
    /\ IF Len(Head(items)) = 0
       THEN /\ Goto(p, "panic", <<>>, "items")
            /\ UNCHANGED <<arg, delivered>>
       ELSE /\ Goto(p, "send", GetRest(Head(items)), "items")
            /\ arg' = [arg EXCEPT ![p] = GetHead(Head(items))]
            /\ delivered' = Append(delivered, GetHead(Head(items)))
    /\ UNCHANGED <<empty, op, ctx, ret, issued, committed, harness, libs>>

\* Mutant: Get also takes the unit token and hands out the zero value.
GetRecvAny(p) ==
    \/ RecvHead(p, "Get")
    \/ /\ At(p, "Get", "select")
       /\ CanRecvEmpty
       /\ empty' = empty - 1
       /\ Goto(p, "send", <<>>, "empty")
       /\ arg' = [arg EXCEPT ![p] = 0]
       /\ UNCHANGED <<items, op, ctx, ret, hist, harness, libs>>

GetRecvItems(p) == RecvHead(p, "Get")

\* Mutant: a cancelled Get drains the unit token on its way out.
GetCancelledTakesEmpty(p) ==
    /\ At(p, "Get", "select")
    /\ CtxDone(p)
    /\ empty' = IF CanRecvEmpty THEN empty - 1 ELSE empty
    /\ Return(p, [NoRet EXCEPT !.st = CtxErr(p)])
    /\ UNCHANGED <<items, op, ctx, arg, took, hist, harness, libs>>

GetCancelled(p) == Cancelled(p, "Get")

\* Mutant: the else is missing, so an emptied queue sends both tokens.
GetSendNoElse(p) ==
    /\ At(p, "Get", "send")
    /\ CanSendItems
    /\ items' = Append(items, s[p])
    /\ IF Len(s[p]) = 0
       THEN CanSendEmpty /\ empty' = empty + 1
       ELSE UNCHANGED empty
    /\ Return(p, [NoRet EXCEPT !.val = arg[p], !.st = "nil"])
    /\ UNCHANGED <<op, ctx, arg, took, hist, harness, libs>>

\* Mutant: the remainder always goes back into q.items, emptied or not.
GetSendAlwaysItems(p) ==
    /\ At(p, "Get", "send")
    /\ CanSendItems /\ items' = Append(items, s[p]) /\ UNCHANGED empty
    /\ Return(p, [NoRet EXCEPT !.val = arg[p], !.st = "nil"])
    /\ UNCHANGED <<op, ctx, arg, took, hist, harness, libs>>

\* Mutant: Get returns ctx.Err() with the element, as Put does.
GetSendCtxErr(p) ==
    /\ At(p, "Get", "send")
    /\ IF Len(s[p]) = 0
       THEN CanSendEmpty /\ empty' = empty + 1 /\ UNCHANGED items
       ELSE CanSendItems /\ items' = Append(items, s[p]) /\ UNCHANGED empty
    /\ Return(p, [NoRet EXCEPT !.val = arg[p], !.st = CtxErr(p)])
    /\ UNCHANGED <<op, ctx, arg, took, hist, harness, libs>>

\* if len(s) == 0 { q.empty <- struct{}{} } else { q.items <- s }; return x, nil
GetSend(p) ==
    /\ At(p, "Get", "send")
    /\ IF Len(s[p]) = 0
       THEN CanSendEmpty /\ empty' = empty + 1 /\ UNCHANGED items
       ELSE CanSendItems /\ items' = Append(items, s[p]) /\ UNCHANGED empty
    /\ Return(p, [NoRet EXCEPT !.val = arg[p], !.st = "nil"])
    /\ UNCHANGED <<op, ctx, arg, took, hist, harness, libs>>

----------------------------------------------------------------------------
(* TryGet                                                                  *)

\* Mutant: TryGet takes the items-token only when no other call is in progress.
TryGetRecvItemsUncontended(p) ==
    /\ \A q \in Threads \ {p} : pc[q] \in {"idle", "done"}
    /\ RecvHead(p, "TryGet")

TryGetRecvItems(p) == RecvHead(p, "TryGet")

\* Mutant: a TryGet that finds no items-token drains the unit token before it gives up.
TryGetDefaultTakesEmpty(p) ==
    /\ At(p, "TryGet", "select")
    /\ ~CanRecvItems
    /\ empty' = IF CanRecvEmpty THEN empty - 1 ELSE empty
    /\ Return(p, [NoRet EXCEPT !.st = "false"])
    /\ UNCHANGED <<items, op, ctx, arg, took, hist, harness, libs>>

\* default: return zero, false
\* Mutant: TryGet waits out the unit token: with q.empty loaded it takes the token,
\* finds nothing and puts it back on its return.
TryGetDefaultViaEmpty(p) ==
    /\ At(p, "TryGet", "select")
    /\ ~CanRecvItems
    /\ IF CanRecvEmpty
       THEN /\ empty' = empty - 1
            /\ Goto(p, "send", <<>>, "empty")
            /\ UNCHANGED <<items, op, ctx, arg, ret, hist, harness, libs>>
       ELSE /\ Return(p, [NoRet EXCEPT !.st = "false"])
            /\ UNCHANGED <<chans, op, ctx, arg, took, hist, harness, libs>>

TryGetDefault(p) ==
    /\ At(p, "TryGet", "select")
    /\ ~CanRecvItems
    /\ Return(p, [NoRet EXCEPT !.st = "false"])
    /\ UNCHANGED <<chans, op, ctx, arg, took, hist, harness, libs>>

\* Mutant: the remainder is sent to q.items even when it is empty.
TryGetSendAlwaysItems(p) ==
    /\ At(p, "TryGet", "send")
    /\ items' = IF CanSendItems THEN Append(items, s[p]) ELSE items
    /\ UNCHANGED empty
    /\ Return(p, [NoRet EXCEPT !.val = arg[p], !.st = "true"])
    /\ UNCHANGED <<op, ctx, arg, took, hist, harness, libs>>

\* Mutant: the remainder counts as empty when it has one element left.
TryGetSendOffByOne(p) ==
    /\ At(p, "TryGet", "send")
    /\ IF Len(s[p]) <= 1
       THEN /\ empty' = IF CanSendEmpty THEN empty + 1 ELSE empty
            /\ UNCHANGED items
       ELSE /\ items' = IF CanSendItems THEN Append(items, s[p]) ELSE items
            /\ UNCHANGED empty
    /\ Return(p, [NoRet EXCEPT !.val = arg[p], !.st = "true"])
    /\ UNCHANGED <<op, ctx, arg, took, hist, harness, libs>>

\* The republish is a select with a default: a full channel drops the token.
TryGetSend(p) ==
    /\ At(p, "TryGet", "send")
    /\ IF Len(s[p]) = 0
       THEN /\ empty' = IF CanSendEmpty THEN empty + 1 ELSE empty
            /\ UNCHANGED items
       ELSE /\ items' = IF CanSendItems THEN Append(items, s[p]) ELSE items
            /\ UNCHANGED empty
    /\ Return(p, [NoRet EXCEPT !.val = arg[p], !.st = "true"])
    /\ UNCHANGED <<op, ctx, arg, took, hist, harness, libs>>

----------------------------------------------------------------------------
(* Size                                                                    *)

\* Mutant: Size reads the slice in q.items without receiving it.
SizeRecvItemsPeek(p) ==
    /\ At(p, "Size", "select")
    /\ CanRecvItems
    /\ Goto(p, "send", Head(items), "items")
    /\ UNCHANGED <<chans, op, ctx, arg, ret, hist, harness, libs>>

SizeRecvItems(p) ==
    /\ At(p, "Size", "select")
    /\ CanRecvItems
    /\ items' = Tail(items)
    /\ Goto(p, "send", Head(items), "items")
    /\ UNCHANGED <<empty, op, ctx, arg, ret, hist, harness, libs>>

\* Mutant: Size has no case for q.empty and waits for the items-token only.
SizeRecvItemsOnly(p) ==
    /\ At(p, "Size", "select")
    /\ CanRecvItems
    /\ items' = Tail(items)
    /\ Goto(p, "send", Head(items), "items")
    /\ UNCHANGED <<empty, op, ctx, arg, ret, hist, harness, libs>>

SizeRecvEmpty(p) ==
    /\ At(p, "Size", "select")
    /\ CanRecvEmpty
    /\ empty' = empty - 1
    /\ Goto(p, "send", <<>>, "empty")
    /\ UNCHANGED <<items, op, ctx, arg, ret, hist, harness, libs>>

\* Mutant: the empty case returns 0 without the deferred send.
SizeSendNoDefer(p) ==
    /\ At(p, "Size", "send")
    /\ IF took[p] = "items"
       THEN CanSendItems /\ items' = Append(items, s[p]) /\ UNCHANGED empty
       ELSE UNCHANGED <<items, empty>>
    /\ Return(p, [NoRet EXCEPT !.val = IF took[p] = "items" THEN Len(s[p]) ELSE 0,
                               !.st = "nil"])
    /\ UNCHANGED <<op, ctx, arg, took, hist, harness, libs>>

\* Mutant: the length read is that of the channel, not of the received slice.
SizeSendLenChan(p) ==
    /\ At(p, "Size", "send")
    /\ IF took[p] = "items"
       THEN CanSendItems /\ items' = Append(items, s[p]) /\ UNCHANGED empty
       ELSE CanSendEmpty /\ empty' = empty + 1 /\ UNCHANGED items
    /\ Return(p, [NoRet EXCEPT !.val = Len(items), !.st = "nil"])
    /\ UNCHANGED <<op, ctx, arg, took, hist, harness, libs>>

\* return len(items) / return 0, then the deferred send
SizeSend(p) ==
    /\ At(p, "Size", "send")
    /\ IF took[p] = "items"
       THEN CanSendItems /\ items' = Append(items, s[p]) /\ UNCHANGED empty
       ELSE CanSendEmpty /\ empty' = empty + 1 /\ UNCHANGED items
    /\ Return(p, [NoRet EXCEPT !.val = IF took[p] = "items" THEN Len(s[p]) ELSE 0,
                               !.st = "nil"])
    /\ UNCHANGED <<op, ctx, arg, took, hist, harness, libs>>

----------------------------------------------------------------------------
(* Snapshot                                                                *)

SnapshotRecvItems(p) ==
    /\ At(p, "Snapshot", "select")
    /\ CanRecvItems
    /\ items' = Tail(items)
    /\ Goto(p, "send", Head(items), "items")
    /\ UNCHANGED <<empty, op, ctx, arg, ret, hist, harness, libs>>

\* Mutant: the empty case only looks at q.empty and leaves the token there.
SnapshotRecvEmptyPeek(p) ==
    /\ At(p, "Snapshot", "select")
    /\ CanRecvEmpty
    /\ Goto(p, "send", <<>>, "empty")
    /\ UNCHANGED <<chans, op, ctx, arg, ret, hist, harness, libs>>

SnapshotRecvEmpty(p) ==
    /\ At(p, "Snapshot", "select")
    /\ CanRecvEmpty
    /\ empty' = empty - 1
    /\ Goto(p, "send", <<>>, "empty")
    /\ UNCHANGED <<items, op, ctx, arg, ret, hist, harness, libs>>

SnapshotCancelled(p) == Cancelled(p, "Snapshot")

\* Mutant: a snapshot of the empty queue returns without restoring the token.
SnapshotSendNoRestore(p) ==
    /\ At(p, "Snapshot", "send")
    /\ IF took[p] = "items"
       THEN CanSendItems /\ items' = Append(items, s[p]) /\ UNCHANGED empty
       ELSE UNCHANGED <<items, empty>>
    /\ Return(p, [NoRet EXCEPT !.seq = SnapCopy(s[p]), !.st = "nil"])
    /\ UNCHANGED <<op, ctx, arg, took, hist, harness, libs>>

\* Mutant: the slice is always sent back into q.items, empty or not.
SnapshotSendItems(p) ==
    /\ At(p, "Snapshot", "send")
    /\ CanSendItems /\ items' = Append(items, s[p]) /\ UNCHANGED empty
    /\ Return(p, [NoRet EXCEPT !.seq = SnapCopy(s[p]), !.st = "nil"])
    /\ UNCHANGED <<op, ctx, arg, took, hist, harness, libs>>

\* cp := append([]T(nil), s...); the token goes back where it came from; return cp, nil
SnapshotSend(p) ==
    /\ At(p, "Snapshot", "send")
    /\ IF took[p] = "items"
       THEN CanSendItems /\ items' = Append(items, s[p]) /\ UNCHANGED empty
       ELSE CanSendEmpty /\ empty' = empty + 1 /\ UNCHANGED items
    /\ Return(p, [NoRet EXCEPT !.seq = SnapCopy(s[p]), !.st = "nil"])
    /\ UNCHANGED <<op, ctx, arg, took, hist, harness, libs>>

----------------------------------------------------------------------------
(* IsEmpty                                                                 *)

\* Mutant: the hint is taken by a non-blocking receive from q.empty.
IsEmptyReadRecv(p) ==
    /\ At(p, "IsEmpty", "select")
    /\ empty' = IF CanRecvEmpty THEN empty - 1 ELSE empty
    /\ Return(p, [NoRet EXCEPT !.st = IF CanRecvEmpty THEN "true" ELSE "false"])
    /\ UNCHANGED <<items, op, ctx, arg, took, hist, harness, libs>>

IsEmptyRead(p) ==
    /\ At(p, "IsEmpty", "select")
    /\ Return(p, [NoRet EXCEPT !.st = IF EmptyPeek THEN "true" ELSE "false"])
    /\ UNCHANGED <<chans, op, ctx, arg, took, hist, harness, libs>>

----------------------------------------------------------------------------
(* The steps of a call in progress, and the calls.                         *)

Step(p) ==
    \/ PutRecvItems(p) \/ PutRecvEmpty(p) \/ PutCancelled(p) \/ PutSend(p) \/ PutReturn(p)
    \/ TryPutRecvItems(p) \/ TryPutRecvEmpty(p) \/ TryPutDefault(p) \/ TryPutSend(p)
    \/ GetRecvItems(p) \/ GetCancelled(p) \/ GetSend(p)
    \/ TryGetRecvItems(p) \/ TryGetDefault(p) \/ TryGetSend(p)
    \/ SizeRecvItems(p) \/ SizeRecvEmpty(p) \/ SizeSend(p)
    \/ SnapshotRecvItems(p) \/ SnapshotRecvEmpty(p) \/ SnapshotCancelled(p) \/ SnapshotSend(p)
    \/ IsEmptyRead(p)

Calls(p) ==
    \/ PutCall(p) \/ TryPutCall(p) \/ GetCall(p) \/ TryGetCall(p)
    \/ SizeCall(p) \/ SnapshotCall(p) \/ IsEmptyCall(p)

----------------------------------------------------------------------------
(* A final Put and Get on the quiescent queue: once every call has         *)
(* returned, one goroutine puts a fresh element with a context that is     *)
(* never cancelled and then gets with such a context, nobody else calling. *)

Quiescent == \A p \in Threads : pc[p] \in {"idle", "done"}

ProbePut ==
    /\ phase = "run"
    /\ Quiescent
    /\ Call(Prober, "Put", "never", ProbeElem)
    /\ phase' = "put"
    /\ UNCHANGED <<hist, produced, collected, libs>>

ProbeGet ==
    /\ phase = "put"
    /\ pc[Prober] = "done"
    /\ Call(Prober, "Get", "never", 0)
    /\ phase' = "get"
    /\ UNCHANGED <<hist, produced, collected, libs>>

Next ==
    \/ \E p \in Procs : Calls(p) \/ Cancel(p) \/ Step(p)
    \/ ProbePut
    \/ ProbeGet

Spec == Init /\ [][Next]_vars

\* A goroutine whose next step can run is scheduled: the Go scheduler is preemptive.
Fairness == (\A p \in Procs : WF_vars(Step(p))) /\ WF_vars(ProbeGet)

FairSpec == Spec /\ Fairness

\* A goroutine blocked in a channel operation is queued on the channel and is handed
\* the next value sent to it, so a step that can run again and again is taken.
StrongFairness == \A p \in Procs : SF_vars(Step(p))

SFairSpec == Spec /\ StrongFairness

----------------------------------------------------------------------------
(* TestFiFo_ConcurrentAccess: producers Put their items with              *)
(* context.Background(), consumers Get with a timeout until all the items  *)
(* are collected.                                                          *)

TotalItems == NumProducers * ItemsPerProducer

\* item := producerID*itemsPerProducer + j
ItemsOf(p) == ((p - 1) * ItemsPerProducer + 1)..(p * ItemsPerProducer)

Min(S) == CHOOSE x \in S : \A y \in S : x <= y

ProducerPut(p) ==
    /\ pc[p] = "idle"
    /\ ItemsOf(p) \ issued # {}
    /\ Call(p, "Put", "never", Min(ItemsOf(p) \ issued))
    /\ issued' = issued \cup {Min(ItemsOf(p) \ issued)}
    /\ UNCHANGED <<committed, delivered, harness, libs>>

\* if err != nil { t.Errorf; return }; produced <- item
ProducerNext(p) ==
    /\ pc[p] = "done"
    /\ produced' = IF ret[p].st = "nil" THEN produced \cup {arg[p]} ELSE produced
    /\ pc' = [pc EXCEPT ![p] = IF ret[p].st = "nil" /\ ItemsOf(p) \ issued # {}
                               THEN "idle" ELSE "exit"]
    /\ UNCHANGED <<chans, op, ctx, arg, s, took, ret, hist, phase, collected, libs>>

\* ctxTimeout, cancel := context.WithTimeout(ctx, 100*time.Millisecond); q.Get(ctxTimeout)
ConsumerGet(p) ==
    /\ pc[p] = "idle"
    /\ Call(p, "Get", "live", 0)
    /\ UNCHANGED <<hist, harness, libs>>

\* collected <- item on success; break once len(collected) >= numProducers*itemsPerProducer
ConsumerNext(p) ==
    /\ pc[p] = "done"
    /\ collected' = IF ret[p].st = "nil" THEN Append(collected, ret[p].val) ELSE collected
    /\ pc' = [pc EXCEPT ![p] = IF Len(collected') >= TotalItems THEN "exit" ELSE "idle"]
    /\ UNCHANGED <<chans, op, ctx, arg, s, took, ret, hist, phase, produced, libs>>

InitPC == InitQueue /\ InitLocal(Producers \cup Consumers) /\ InitHist /\ InitLibs

NextPC ==
    \/ \E p \in Producers :
          \/ ProducerPut(p) \/ ProducerNext(p)
          \/ PutRecvItems(p) \/ PutRecvEmpty(p) \/ PutSend(p) \/ PutReturn(p)
    \/ \E p \in Consumers :
          \/ ConsumerGet(p) \/ ConsumerNext(p) \/ Cancel(p)
          \/ GetRecvItems(p) \/ GetCancelled(p) \/ GetSend(p)

SpecPC == InitPC /\ [][NextPC]_vars

----------------------------------------------------------------------------
(* SyncPool[T] of src/sync.go: a defined type over sync.Pool.  One caller  *)
(* sets the field New and calls Get and Put, one call at a time.           *)

PoolVals == 1..NumPoolVals

\* pool.New = func() any { return v }: v is a T, or a value of another type
PoolSetNew ==
    /\ poolPc \in {"idle", "done"}
    /\ \E t \in BOOLEAN : \E v \in PoolVals :
          poolNew' = [set |-> TRUE, isT |-> t, v |-> v]
    /\ poolPc' = "idle"
    /\ poolOp' = "none"
    /\ UNCHANGED <<poolItems, poolArg, poolRet, poolDepth, queuevars, atomvars>>

PoolGetCall ==
    /\ poolPc \in {"idle", "done"}
    /\ poolPc' = "Get"
    /\ poolOp' = "Get"
    /\ poolRet' = Zero
    /\ UNCHANGED <<poolNew, poolItems, poolArg, poolDepth, queuevars, atomvars>>

\* v, ok := p.New().(T); if !ok { panic(...) }; return v
\* Calling the nil function value New panics; the underlying pool is not read.
PoolGet ==
    /\ poolPc = "Get"
    /\ IF poolNew.set /\ poolNew.isT
       THEN poolPc' = "done" /\ poolRet' = poolNew.v
       ELSE poolPc' = "panic" /\ UNCHANGED poolRet
    /\ UNCHANGED <<poolNew, poolItems, poolOp, poolArg, poolDepth, queuevars, atomvars>>

PoolPutCall ==
    /\ poolPc \in {"idle", "done"}
    /\ \E x \in PoolVals : poolArg' = x
    /\ poolPc' = "Put"
    /\ poolOp' = "Put"
    /\ poolDepth' = 1
    /\ UNCHANGED <<poolNew, poolItems, poolRet, queuevars, atomvars>>

\* p.Put(x): the method calls itself
PoolPutRecurse ==
    /\ poolPc = "Put"
    /\ poolDepth < MaxStack
    /\ poolDepth' = poolDepth + 1
    /\ UNCHANGED <<poolNew, poolItems, poolPc, poolOp, poolArg, poolRet, queuevars, atomvars>>

\* The goroutine's stack reaches its limit: fatal error, stack overflow.
PoolPutOverflow ==
    /\ poolPc = "Put"
    /\ poolDepth = MaxStack
    /\ poolPc' = "fatal"
    /\ UNCHANGED <<poolNew, poolItems, poolOp, poolArg, poolRet, poolDepth, queuevars, atomvars>>

NextPool ==
    \/ PoolSetNew \/ PoolGetCall \/ PoolGet
    \/ PoolPutCall \/ PoolPutRecurse \/ PoolPutOverflow

SpecPool == Init /\ [][NextPool]_vars

\* The caller's goroutine keeps running.
FairSpecPool == SpecPool /\ WF_vars(NextPool)

----------------------------------------------------------------------------
(* Atomic[T] of src/atomic.go: a struct of four closures over one          *)
(* atomic.Value.  The program has NumHandles variables of type Atomic[T];  *)
(* it assigns them MakeAtomic results and copies of one another and calls  *)
(* the methods through them.  A failed type assertion panics and ends it.  *)

Handles == 1..NumHandles
Cells == 1..MaxCells
AtomVals == Zero..NumAtomVals

Running == alast.st = "ok"

Called(o, h, x, r, k, t) == [op |-> o, h |-> h, x |-> x, ret |-> r, ok |-> k, st |-> t]

\* var a atomic.Value; if len(maybeDefaultValue) > 0 { a.Store(maybeDefaultValue[0]) }
\* return Atomic[T]{load: ..., store: ..., swap: ..., compareAndSwap: ...}
MakeAtomic(h) ==
    /\ Running
    /\ anext < MaxCells
    /\ \E def \in BOOLEAN : \E d \in AtomVals :
          /\ avalue' = [avalue EXCEPT ![anext + 1] =
                            [set |-> def, v |-> IF def THEN d ELSE Zero]]
          /\ alast' = Called("MakeAtomic", h, IF def THEN d ELSE Zero, Zero, def, "ok")
    /\ anext' = anext + 1
    /\ acell' = [acell EXCEPT ![h] = anext + 1]
    /\ aorigin' = [aorigin EXCEPT ![h] = anext + 1]
    /\ UNCHANGED <<queuevars, poolvars>>

\* Mutant: a copy gets storage of its own, holding the value at the time of the copy.
AtomicCopyFresh(g, h) ==
    /\ Running
    /\ g # h
    /\ IF acell[g] # NoCell /\ anext < MaxCells
       THEN /\ avalue' = [avalue EXCEPT ![anext + 1] = avalue[acell[g]]]
            /\ anext' = anext + 1
            /\ acell' = [acell EXCEPT ![h] = anext + 1]
       ELSE /\ acell' = [acell EXCEPT ![h] = acell[g]]
            /\ UNCHANGED <<avalue, anext>>
    /\ aorigin' = [aorigin EXCEPT ![h] = aorigin[g]]
    /\ alast' = Called("Copy", h, Zero, Zero, TRUE, "ok")
    /\ UNCHANGED <<queuevars, poolvars>>

\* h = g, or g passed by value: the four function values are copied, and with them
\* the reference to the captured atomic.Value
AtomicCopy(g, h) ==
    /\ Running
    /\ g # h
    /\ acell' = [acell EXCEPT ![h] = acell[g]]
    /\ aorigin' = [aorigin EXCEPT ![h] = aorigin[g]]
    /\ alast' = Called("Copy", h, Zero, Zero, TRUE, "ok")
    /\ UNCHANGED <<avalue, anext, queuevars, poolvars>>

\* Load: the zero value when a.load == nil; else v, ok := a.Load().(T), and a value
\* never stored fails the assertion
LoadResult(h) ==
    IF acell[h] = NoCell THEN [ret |-> Zero, st |-> "ok"]
    ELSE IF ~avalue[acell[h]].set THEN [ret |-> Zero, st |-> "panic"]
    ELSE [ret |-> avalue[acell[h]].v, st |-> "ok"]

AtomicLoad(h) ==
    /\ Running
    /\ alast' = Called("Load", h, Zero, LoadResult(h).ret, TRUE, LoadResult(h).st)
    /\ UNCHANGED <<avalue, anext, acell, aorigin, queuevars, poolvars>>

\* Store: nothing when a.store == nil; else a.Store(x)
AtomicStore(h) ==
    /\ Running
    /\ \E x \in AtomVals :
          /\ avalue' = IF acell[h] = NoCell THEN avalue
                        ELSE [avalue EXCEPT ![acell[h]] = [set |-> TRUE, v |-> x]]
          /\ alast' = Called("Store", h, x, Zero, TRUE, "ok")
    /\ UNCHANGED <<anext, acell, aorigin, queuevars, poolvars>>

\* Swap: x when a.swap == nil; else v, ok := a.Swap(x).(T), which has stored x before
\* the assertion on the old value is made
AtomicSwap(h) ==
    /\ Running
    /\ \E x \in AtomVals :
          IF acell[h] = NoCell
          THEN /\ alast' = Called("Swap", h, x, x, TRUE, "ok")
               /\ UNCHANGED avalue
          ELSE /\ avalue' = [avalue EXCEPT ![acell[h]] = [set |-> TRUE, v |-> x]]
               /\ alast' = Called("Swap", h, x, avalue[acell[h]].v, TRUE,
                                  IF avalue[acell[h]].set THEN "ok" ELSE "panic")
    /\ UNCHANGED <<anext, acell, aorigin, queuevars, poolvars>>

\* CompareAndSwap: false when a.compareAndSwap == nil; else a.CompareAndSwap(old, new),
\* which is false on a value never stored
AtomicCompareAndSwap(h) ==
    /\ Running
    /\ \E old, new \in AtomVals :
          IF acell[h] # NoCell /\ avalue[acell[h]].set /\ avalue[acell[h]].v = old
          THEN /\ avalue' = [avalue EXCEPT ![acell[h]] = [set |-> TRUE, v |-> new]]
               /\ alast' = Called("CompareAndSwap", h, new, Zero, TRUE, "ok")
          ELSE /\ alast' = Called("CompareAndSwap", h, new, Zero, FALSE, "ok")
               /\ UNCHANGED avalue
    /\ UNCHANGED <<anext, acell, aorigin, queuevars, poolvars>>

NextAtomic ==
    \E h \in Handles :
        \/ MakeAtomic(h)
        \/ \E g \in Handles : AtomicCopy(g, h)
        \/ AtomicLoad(h) \/ AtomicStore(h) \/ AtomicSwap(h) \/ AtomicCompareAndSwap(h)

SpecAtomic == Init /\ [][NextAtomic]_vars

----------------------------------------------------------------------------
(* Ownership and contents.                                                 *)

\* p has received a token and has not sent one back.
Owner(p) == pc[p] \in {"send", "panic"}
Owners == {p \in Threads : Owner(p)}
TokensInSlots == Len(items) + empty
\* One slot holds a token and the other is vacant.
ExactlyOneSlot == (Len(items) = 1 /\ empty = 0) \/ (Len(items) = 0 /\ empty = 1)

\* The queue's elements: the slice that travels with the token.
Contents ==
    IF items # <<>> THEN Head(items)
    ELSE IF Owners # {} THEN s[CHOOSE p \in Owners : TRUE]
    ELSE <<>>

Range(f) == {f[i] : i \in DOMAIN f}
Count(f, x) == Cardinality({i \in DOMAIN f : f[i] = x})

----------------------------------------------------------------------------
\* C1: FIFO in commit order. In every reachable state the elements handed out by
\* Get/TryGet (in the order of their token acquisitions) followed by the elements the
\* queue holds are the elements committed by Put/TryPut in the order of their token
\* acquisitions.
C1_FifoCommitOrder == delivered \o Contents = committed

\* Put(1), Put(2), Put(3) and three Gets that returned 1, 2, 3.
C1_Witness == delivered = <<1, 2, 3>> /\ Quiescent

\* C3: mutual exclusion by token. At most one operation is between removing a token
\* and republishing one; during that window no slot holds a token, and no other
\* goroutine holds the slice.
C3_MutualExclusion ==
    /\ Cardinality(Owners) <= 1
    /\ Owners # {} => TokensInSlots = 0
    /\ \A p \in Threads : ~Owner(p) => s[p] = <<>>

\* One goroutine owns a non-empty slice while another waits in its select.
C3_Witness ==
    \E p, q \in Threads : Owner(p) /\ s[p] # <<>> /\ pc[q] = "select" /\ op[q] = "Size"

\* C4: token conservation. Tokens in itemsSlot + tokens in emptySlot + operations
\* owning a token = 1, and the two slots never both hold a token; so an operation
\* that took a token has sent exactly one back when it returns.
C4_TokenConservation ==
    /\ TokensInSlots + Cardinality(Owners) = 1
    /\ ~(Len(items) > 0 /\ empty > 0)
    /\ \A p \in Threads : pc[p] # "panic"

\* A Get that took the last element has returned, and the token is in emptySlot.
C4_Witness ==
    \E p \in Threads : pc[p] = "done" /\ op[p] = "Get" /\ took[p] = "items" /\ empty = 1

\* C6: I3. Whenever itemsSlot holds a token its slice has length >= 1; when the queue
\* holds no element and no operation owns the token, the token is in emptySlot.
C6_ItemsNonEmpty ==
    /\ \A i \in DOMAIN items : Len(items[i]) >= 1
    /\ (Owners = {} /\ Len(committed) = Len(delivered)) => (empty = 1 /\ items = <<>>)
    /\ empty = 1 => Len(committed) = Len(delivered)

\* The queue was drained by TryGet: the token is back in emptySlot.
C6_Witness ==
    \E p \in Threads : pc[p] = "done" /\ op[p] = "TryGet" /\ ret[p].st = "true" /\ empty = 1

\* The consumers whose Get has returned an element that is not yet collected.
Returned == {p \in Consumers : pc[p] = "done" /\ ret[p].st = "nil"}

\* C2: no loss or duplication under contention (TestFiFo_ConcurrentAccess). Every
\* element a Get returned was handed to a Put, no element is returned twice, and once
\* all the items are collected the collected items are the produced ones and the
\* queue is empty.
C2_NoLossNoDuplication ==
    /\ Range(collected) \subseteq issued
    /\ \A i, j \in DOMAIN collected : collected[i] = collected[j] => i = j
    /\ \A p \in Returned : ret[p].val \in issued /\ ret[p].val \notin Range(collected)
    /\ \A p, q \in Returned : ret[p].val = ret[q].val => p = q
    /\ Len(collected) = TotalItems =>
          /\ Range(collected) = 1..TotalItems
          /\ \A p \in Producers : ItemsOf(p) \subseteq Range(committed)
          /\ items = <<>> /\ empty = 1 /\ Contents = <<>>

\* All the items are collected and every consumer has left its loop, one of them
\* with the deadline of its last Get passed.
C2_Witness ==
    /\ Len(collected) = TotalItems
    /\ \A p \in Consumers : pc[p] = "exit"
    /\ \E p \in Consumers : ctx[p] = "fired"

\* C5 as stated (I1): whenever a goroutine is about to look at the slots with
\* IsEmpty, TryPut or TryGet, exactly one of itemsSlot and emptySlot holds a token.
C5_I1AsStated ==
    (\E p \in Threads : pc[p] = "select" /\ op[p] \in {"IsEmpty", "TryPut", "TryGet"})
        => ExactlyOneSlot

\* C5 amended: at most one slot holds a token; exactly one does when no operation is
\* between acquisition and republish, and both are vacant while one is.
C5_I1Amended ==
    /\ Len(items) <= 1 /\ empty <= 1
    /\ Owners = {} => ExactlyOneSlot
    /\ Owners # {} => (Len(items) = 0 /\ empty = 0)

\* TryPut found both slots vacant, another operation owning the token, and failed.
C5_Witness ==
    \E p, q \in Threads :
        /\ pc[p] = "done" /\ op[p] = "TryPut" /\ ret[p].st = "false"
        /\ Owner(q) /\ Len(items) = 0 /\ empty = 0

\* C9: a Put that returned the cancellation error did not add its element.
C9_CancelledPutNoMutation ==
    \A p \in Threads :
        (pc[p] = "done" /\ op[p] = "Put" /\ ret[p].st = "cancelled")
            => (took[p] = "none" /\ arg[p] \notin Range(committed))

\* C10: Put reports the cancellation status sampled after the republish. A Put that
\* returned has returned the cancellation error exactly if its signal fired during or
\* before the call; a Put that took a token, and so every Put that returned nil, has
\* appended its element exactly once; a Put that took no token appended nothing.
C10_PutStatus ==
    \A p \in Threads :
        /\ (pc[p] = "done" /\ op[p] = "Put") =>
              /\ ret[p].st = (IF ctx[p] = "fired" THEN "cancelled" ELSE "nil")
              /\ ret[p].st = "nil" => took[p] # "none"
              /\ Count(committed, arg[p]) = (IF took[p] # "none" THEN 1 ELSE 0)
        /\ (pc[p] = "ret" /\ op[p] = "Put") =>
              /\ Count(committed, arg[p]) = 1
              /\ arg[p] \in Range(Contents) \cup Range(delivered)
              /\ ~Owner(p)

\* A Put appended its element and returned the cancellation error.
C10_Witness ==
    \E p \in Threads :
        /\ pc[p] = "done" /\ op[p] = "Put" /\ ret[p].st = "cancelled"
        /\ took[p] = "empty" /\ committed = <<arg[p]>>

\* C7: the token is never stranded. Whenever every call has returned exactly one slot
\* holds a token; a goroutine that owns the token can always take its next step; and
\* the final Put and Get with never-cancelled signals, made once every call has
\* returned, both return successfully.
C7_TokenNeverStranded ==
    /\ [](Quiescent => ExactlyOneSlot)
    /\ [](\A p \in Threads : Owner(p) => ENABLED Step(p))
    /\ []((phase = "put" /\ pc[Prober] = "done") => ret[Prober].st = "nil")
    /\ (phase = "put") ~>
          (phase = "get" /\ pc[Prober] = "done" /\ ret[Prober].st = "nil" /\ ExactlyOneSlot)

\* The final Put and Get returned, after three elements were put and a call was
\* cancelled.
C7_Witness ==
    /\ phase = "get" /\ pc[Prober] = "done" /\ ret[Prober].st = "nil"
    /\ Len(committed) = MaxPuts + 1
    /\ \E q \in Threads : q # Prober /\ ret[q].st = "cancelled"

\* p goes past its republish, its whole slice (or the unit token) now in a slot.
Republished(p) ==
    /\ pc'[p] \in {"ret", "done"}
    /\ \/ items' = <<s[p]>> /\ empty' = 0 /\ s[p] # <<>>
       \/ items' = <<>> /\ empty' = 1 /\ s[p] = <<>>

\* C8: cancellation is honoured only while waiting for a token. An operation stops
\* owning the token only by sending its whole slice back (into itemsSlot, or the unit
\* token into emptySlot when the slice is empty), and an owner whose signal has fired
\* still gets there.
C8_CancelOnlyWhileWaiting ==
    /\ [][\A p \in Threads : (Owner(p) /\ ~Owner(p)') => Republished(p)]_vars
    /\ \A p \in Procs : (Owner(p) /\ ctx[p] = "fired") ~> ~Owner(p)

\* A Snapshot whose signal fired has returned the copy.
C8_Witness ==
    \E p \in Threads :
        /\ pc[p] = "done" /\ op[p] = "Snapshot" /\ ctx[p] = "fired"
        /\ ret[p].st = "nil" /\ Len(ret[p].seq) = 2

\* C11: a Get or Snapshot that returns the cancellation error took no token and had
\* no side effect. Such a call holds no acquisition, the zero value and no sequence,
\* and neither the step that starts it nor the step that returns the error changes a
\* slot or the elements committed and delivered.
C11_CancelledReadNoEffect ==
    /\ [](\A p \in Threads :
            (pc[p] = "done" /\ op[p] \in {"Get", "Snapshot"} /\ ret[p].st = "cancelled")
                => (took[p] = "none" /\ ret[p].val = 0 /\ ret[p].seq = <<>>))
    /\ [][\A p \in Threads :
            (/\ pc'[p] # pc[p]
             /\ op'[p] \in {"Get", "Snapshot"}
             /\ \/ pc'[p] = "select"
                \/ pc'[p] = "done" /\ ret'[p].st = "cancelled")
                => UNCHANGED <<chans, committed, delivered>>]_vars

\* A Get and a Snapshot both returned the cancellation error on a queue that holds
\* elements, which are still in itemsSlot.
C11_Witness ==
    \E p, q \in Threads :
        /\ pc[p] = "done" /\ op[p] = "Get" /\ ret[p].st = "cancelled"
        /\ pc[q] = "done" /\ op[q] = "Snapshot" /\ ret[q].st = "cancelled"
        /\ items # <<>> /\ Len(Head(items)) = 2

\* C12: Get with an already-cancelled signal on a non-empty queue returns the head
\* element with a nil error. With the items-token in itemsSlot and no other call in
\* progress, the step a Get with a fired signal takes from its select is the receive
\* of the head element, never the cancelled return.
C12_CancelledGetStillRetrieves ==
    [][\A p \in Threads :
        (/\ At(p, "Get", "select") /\ ctx[p] = "fired"
         /\ CanRecvItems
         /\ \A q \in Threads \ {p} : pc[q] \in {"idle", "done"}
         /\ pc'[p] # pc[p])
            => (pc'[p] = "send" /\ arg'[p] = GetHead(Head(items)))]_vars

\* The number of elements the queue holds: committed and not yet handed out.
QueueLen == Len(committed) - Len(delivered)

\* C13: Get on an empty queue never fabricates an element. An element returned by Get
\* was committed by a Put/TryPut and handed out once; while the queue is empty a
\* waiting Get cannot receive, and can move exactly if its signal has fired; the step
\* it takes with the token in emptySlot is the return of the cancellation error with
\* the zero value, which leaves the token in emptySlot and itemsSlot vacant.
C13_GetNeverFabricates ==
    /\ [](\A p \in Threads :
            (pc[p] = "done" /\ op[p] = "Get" /\ ret[p].st = "nil")
                => (ret[p].val \in Range(committed) /\ Count(delivered, ret[p].val) = 1))
    /\ [](\A p \in Procs :
            (At(p, "Get", "select") /\ QueueLen = 0)
                => (~ENABLED GetRecvItems(p) /\ (ENABLED Step(p) <=> ctx[p] = "fired")))
    /\ [][\A p \in Threads :
            (At(p, "Get", "select") /\ empty = 1 /\ pc'[p] # pc[p])
                => /\ ctx[p] = "fired"
                   /\ pc'[p] = "done" /\ ret'[p] = [NoRet EXCEPT !.st = "cancelled"]
                   /\ empty' = 1 /\ items' = <<>>
                   /\ UNCHANGED <<committed, delivered>>]_vars

\* A Get returned the cancellation error on a queue that had been emptied; the token
\* is in emptySlot.
C13_Witness ==
    \E p \in Threads :
        /\ pc[p] = "done" /\ op[p] = "Get" /\ ret[p].st = "cancelled"
        /\ empty = 1 /\ items = <<>>
        /\ Len(delivered) = 2 /\ QueueLen = 0

\* C14: empty-block-then-deliver. A Get with a never-cancelled signal cannot move
\* while the queue is empty and only ever returns an element with a nil error; the
\* element it receives is the oldest one committed and not yet handed out; and while
\* it waits on a queue that holds an element, it eventually returns an element with a
\* nil error unless other consumers empty the queue first.
C14_EmptyBlockThenDeliver ==
    /\ [](\A p \in Procs :
            (At(p, "Get", "select") /\ ctx[p] = "never" /\ QueueLen = 0)
                => ~ENABLED Step(p))
    /\ [](\A p \in Threads :
            (pc[p] = "done" /\ op[p] = "Get" /\ ctx[p] = "never")
                => (ret[p].st = "nil" /\ ret[p].val \in Range(delivered)))
    /\ [][\A p \in Threads :
            (At(p, "Get", "select") /\ pc'[p] = "send")
                => (QueueLen > 0 /\ arg'[p] = committed[Len(delivered) + 1])]_vars
    /\ \A p \in Procs :
            (At(p, "Get", "select") /\ ctx[p] = "never" /\ QueueLen > 0)
                ~> \/ pc[p] = "done" /\ op[p] = "Get" /\ ret[p].st = "nil"
                   \/ pc[p] = "select" /\ QueueLen = 0

\* A Get with a never-cancelled signal, called on the empty queue, returned the
\* element that a TryPut committed while it waited.
C14_Witness ==
    \E p, q \in Threads :
        /\ pc[p] = "done" /\ op[p] = "Get" /\ ctx[p] = "never" /\ ret[p].st = "nil"
        /\ pc[q] = "done" /\ op[q] = "TryPut" /\ ret[q].st = "true"
        /\ committed = <<ret[p].val>> /\ arg[q] = ret[p].val
        /\ empty = 1

\* C15: Size is a consistent read. Between Size's acquisition of the token and its
\* return no element is committed or removed, and the value it returns is the number
\* of elements committed minus the number removed at that instant, which is 0 exactly
\* when it acquired the empty-token.
C15_SizeConsistentRead ==
    /\ [](\A p \in Threads :
            At(p, "Size", "send") => ((took[p] = "empty") <=> (QueueLen = 0)))
    /\ [][\A p \in Threads :
            At(p, "Size", "send") => UNCHANGED <<committed, delivered>>]_vars
    /\ [][\A p \in Threads :
            (At(p, "Size", "send") /\ pc'[p] = "done")
                => /\ ret'[p].val = QueueLen
                   /\ ret'[p].st = "nil"
                   /\ took[p] = "empty" => ret'[p].val = 0]_vars

\* Size returned 2 after three Puts and a Get had completed.
C15_Witness ==
    \E p \in Threads :
        /\ pc[p] = "done" /\ op[p] = "Size" /\ ret[p].val = 2
        /\ Len(committed) = 3 /\ Len(delivered) = 1
        /\ \A q \in Threads : pc[q] \in {"idle", "done"}

\* C16: Snapshot content. Between Snapshot's acquisition of the token and its return
\* no element is committed or removed; a Snapshot that succeeds returns, with a nil
\* error, the elements committed and not yet handed out, in commit order, which is the
\* empty sequence when it acquired the empty-token; and the result a Snapshot returned
\* stays as it is whatever is done to the queue afterwards.
C16_SnapshotContent ==
    /\ [][\A p \in Threads :
            At(p, "Snapshot", "send") => UNCHANGED <<committed, delivered>>]_vars
    /\ [][\A p \in Threads :
            (At(p, "Snapshot", "send") /\ pc'[p] = "done")
                => /\ ret'[p].st = "nil"
                   /\ delivered \o ret'[p].seq = committed
                   /\ took[p] = "empty" => ret'[p].seq = <<>>]_vars
    /\ [][\A p \in Threads :
            (pc[p] = "done" /\ op[p] = "Snapshot" /\ pc'[p] = "done")
                => ret'[p] = ret[p]]_vars

\* A Snapshot returned two elements; the first has since been handed out by a Get and
\* a third one has been put.
C16_Witness ==
    \E p \in Threads :
        /\ pc[p] = "done" /\ op[p] = "Snapshot" /\ ret[p].st = "nil"
        /\ Len(ret[p].seq) = 2 /\ ret[p].seq = <<committed[1], committed[2]>>
        /\ delivered = <<ret[p].seq[1]>>
        /\ Len(committed) = 3

\* C17: Size and Snapshot have no visible side effect. What the operation took from a
\* slot it holds unchanged while it owns the token, nothing is committed or removed in
\* the meantime, and its return puts the same sequence back into the slot it came
\* from, leaving the other slot vacant.
C17_IntrospectionNoEffect ==
    /\ [][\A p \in Threads :
            (op[p] \in {"Size", "Snapshot"} /\ pc[p] = "select" /\ pc'[p] = "send")
                => \/ took'[p] = "items" /\ items = <<s'[p]>> /\ empty = 0
                   \/ took'[p] = "empty" /\ s'[p] = <<>> /\ items = <<>> /\ empty = 1]_vars
    /\ [][\A p \in Threads :
            (op[p] \in {"Size", "Snapshot"} /\ pc[p] = "send")
                => /\ UNCHANGED <<committed, delivered>>
                   /\ pc'[p] = "send" => (UNCHANGED <<items, empty>>
                                          /\ s'[p] = s[p] /\ took'[p] = took[p])
                   /\ pc'[p] # "send" =>
                         /\ pc'[p] = "done"
                         /\ \/ took[p] = "items" /\ items' = <<s[p]>> /\ empty' = 0
                            \/ took[p] = "empty" /\ items' = <<>> /\ empty' = 1]_vars

\* A Size that took the items-token and a Snapshot that took the empty-token have both
\* returned.
C17_Witness ==
    \E p, q \in Threads :
        /\ pc[p] = "done" /\ op[p] = "Size" /\ took[p] = "items" /\ ret[p].val = 2
        /\ pc[q] = "done" /\ op[q] = "Snapshot" /\ took[q] = "empty" /\ ret[q].st = "nil"
        /\ items # <<>> /\ Len(Head(items)) = 2 /\ empty = 0

\* C18: quiescent consistency of the introspection operations. In every state where
\* no call is in progress, the initial one included, exactly one slot holds a token,
\* the unit token is in emptySlot exactly if the queue holds no element, and the slice
\* in itemsSlot has the queue's length; an IsEmpty that runs then returns true exactly
\* if the queue holds no element, and a Size that returns then returns 0 exactly if
\* the queue holds no element, which is exactly if IsEmpty is then true.
C18_QuiescentConsistency ==
    /\ [](Quiescent =>
            /\ ExactlyOneSlot
            /\ EmptyPeek <=> (QueueLen = 0)
            /\ items # <<>> => Len(Head(items)) = QueueLen)
    /\ [][\A p \in Threads :
            (/\ At(p, "IsEmpty", "select") /\ pc'[p] = "done"
             /\ \A q \in Threads \ {p} : Callable(q))
                => (ret'[p].st = "true" <=> QueueLen = 0)]_vars
    /\ [][\A p \in Threads :
            (/\ At(p, "Size", "send") /\ pc'[p] = "done"
             /\ \A q \in Threads \ {p} : Callable(q))
                => /\ ret'[p].val = 0 <=> QueueLen = 0
                   /\ ret'[p].val = 0 <=> EmptyPeek']_vars

\* After two Puts and two Gets, with no call in progress, a Size has returned 0 and
\* an IsEmpty has returned true.
C18_Witness ==
    \E p, q \in Threads :
        /\ Quiescent
        /\ pc[p] = "done" /\ op[p] = "Size" /\ ret[p].val = 0 /\ ret[p].st = "nil"
        /\ pc[q] = "done" /\ op[q] = "IsEmpty" /\ ret[q].st = "true"
        /\ Len(committed) = 2 /\ Len(delivered) = 2

\* C19: negative results have no side effect. A TryPut that returned false or a TryGet
\* that returned found=false holds no acquisition, TryGet's value is the zero value,
\* the element of the failed TryPut was not committed, and neither the step that
\* starts the call nor the step that returns the negative result changes a slot or the
\* elements committed and delivered.
C19_NegativeNoEffect ==
    /\ [](\A p \in Threads :
            (pc[p] = "done" /\ op[p] \in {"TryPut", "TryGet"} /\ ret[p].st = "false")
                => /\ took[p] = "none"
                   /\ ret[p].val = 0
                   /\ op[p] = "TryPut" => arg[p] \notin Range(committed))
    /\ [][\A p \in Threads :
            (/\ pc'[p] # pc[p]
             /\ op'[p] \in {"TryPut", "TryGet"}
             /\ \/ pc'[p] = "select"
                \/ pc'[p] = "done" /\ ret'[p].st = "false")
                => UNCHANGED <<items, empty, committed, delivered>>]_vars

\* A TryPut returned false while another call owned the token, and a TryGet returned
\* found=false on the empty queue; the unit token is in emptySlot.
C19_Witness ==
    \E p, q \in Threads :
        /\ pc[p] = "done" /\ op[p] = "TryPut" /\ ret[p].st = "false"
        /\ pc[q] = "done" /\ op[q] = "TryGet" /\ ret[q].st = "false"
        /\ empty = 1 /\ items = <<>> /\ committed = <<>>

\* C20: TryPut, TryGet and IsEmpty never block. Whatever the other goroutines do, a
\* started TryPut, TryGet or IsEmpty can take its next step, TryPut's republish into
\* itemsSlot included, and it returns after at most two steps: select then republish.
C20_TryNeverBlocks ==
    /\ [](\A p \in Procs :
            (op[p] \in {"TryPut", "TryGet", "IsEmpty"} /\ pc[p] \in {"select", "send"})
                => ENABLED Step(p))
    /\ [][\A p \in Threads :
            (op[p] \in {"TryPut", "TryGet", "IsEmpty"} /\ pc'[p] # pc[p])
                => \/ pc[p] \in {"idle", "done"} /\ pc'[p] = "select"
                   \/ pc[p] = "select" /\ pc'[p] \in {"send", "done"}
                   \/ pc[p] = "send" /\ pc'[p] = "done"]_vars

\* A TryPut is about to republish while a Put with a never-cancelled signal is stuck
\* waiting for a token.
C20_Witness ==
    \E p, q \in Procs :
        /\ At(p, "TryPut", "send") /\ took[p] = "items" /\ ENABLED Step(p)
        /\ At(q, "Put", "select") /\ ctx[q] = "never" /\ ~ENABLED Step(q)

\* C21: TryGet's non-blocking republish never fails. Whenever TryGet has taken the
\* items-token, the slot it is about to republish into (emptySlot when the remainder
\* is empty, itemsSlot otherwise) is vacant, so the default branch that would drop the
\* token cannot be taken.
C21_TryGetRepublishNeverFails ==
    \A p \in Threads :
        At(p, "TryGet", "send") =>
            /\ took[p] = "items"
            /\ IF Len(s[p]) = 0 THEN CanSendEmpty ELSE CanSendItems

\* TryGet holds the token with a remainder of one element while a Put waits.
C21_Witness ==
    \E p, q \in Threads :
        /\ At(p, "TryGet", "send") /\ Len(s[p]) = 1
        /\ At(q, "Put", "select")

\* C22: TryPut fails only under contention. TryPut returns false only while another
\* operation owns the token; with no other call in progress the step TryPut takes
\* from its select is an acquisition that appends x to the queue's contents, and its
\* return is true with x the last element of the sequence in itemsSlot.
C22_TryPutFailsOnlyContended ==
    /\ [][\A p \in Threads :
            (At(p, "TryPut", "select") /\ pc'[p] = "done")
                => (ret'[p].st = "false" /\ \E q \in Threads \ {p} : Owner(q))]_vars
    /\ [][\A p \in Threads :
            (/\ At(p, "TryPut", "select") /\ pc'[p] # pc[p]
             /\ \A q \in Threads \ {p} : Callable(q))
                => (pc'[p] = "send" /\ s'[p] = Append(Contents, arg[p]))]_vars
    /\ [][\A p \in Threads :
            (At(p, "TryPut", "send") /\ pc'[p] # pc[p])
                => /\ pc'[p] = "done" /\ ret'[p].st = "true"
                   /\ items' = <<s[p]>> /\ s[p][Len(s[p])] = arg[p]]_vars

\* With no call in progress, a TryPut on a queue of one element has returned true and
\* its element is the last of the two in itemsSlot.
C22_Witness ==
    \E p \in Threads :
        /\ Quiescent
        /\ pc[p] = "done" /\ op[p] = "TryPut" /\ ret[p].st = "true" /\ took[p] = "items"
        /\ items # <<>> /\ Len(Head(items)) = 2 /\ Head(items)[2] = arg[p]

\* C23: Size always returns. A Size that has started can take its next step whenever
\* a token is in a slot, its only result is a length with no error, and under fair
\* scheduling, whatever calls the other goroutines make, it eventually returns.
C23_SizeAlwaysReturns ==
    /\ [](\A p \in Procs :
            (At(p, "Size", "select") /\ (items # <<>> \/ empty = 1)) => ENABLED Step(p))
    /\ [](\A p \in Threads :
            (pc[p] = "done" /\ op[p] = "Size") => (ret[p].st = "nil" /\ ret[p].val >= 0))
    /\ \A p \in Procs :
            At(p, "Size", "select") ~> (pc[p] = "done" /\ op[p] = "Size")

\* A Size returned 1 on a queue whose only element a Put committed.
C23_Witness ==
    \E p, q \in Threads :
        /\ pc[p] = "done" /\ op[p] = "Size" /\ ret[p].val = 1
        /\ op[q] = "Put" /\ pc[q] \in {"ret", "done"} /\ committed = <<arg[q]>>
        /\ delivered = <<>>

\* C24: Put never waits for a consumer or for space. A Put with a never-cancelled
\* signal can take its next step whenever a token is in a slot, whatever the length of
\* the queue, and under fair scheduling it eventually returns nil with its element
\* committed, even if no Get or TryGet is ever called.
C24_PutNeverWaitsForSpace ==
    /\ [](\A p \in Procs :
            (At(p, "Put", "select") /\ (items # <<>> \/ empty = 1)) => ENABLED Step(p))
    /\ \A p \in Procs :
            (At(p, "Put", "select") /\ ctx[p] = "never")
                ~> (/\ pc[p] = "done" /\ op[p] = "Put" /\ ret[p].st = "nil"
                    /\ Count(committed, arg[p]) = 1)

\* Three Puts returned nil and no element was ever handed out.
C24_Witness ==
    \E p \in Threads :
        /\ pc[p] = "done" /\ op[p] = "Put" /\ ctx[p] = "never" /\ ret[p].st = "nil"
        /\ Len(committed) = MaxPuts /\ delivered = <<>>
        /\ items # <<>> /\ Len(Head(items)) = MaxPuts /\ Head(items)[MaxPuts] = arg[p]

----------------------------------------------------------------------------
(* The mutex-plus-slice FiFo: `items` updated under the lock.              *)

\* q.items = append(q.items, item)
MutexPut(q, x) == Append(q, x)
\* for len(q.items) == 0 { ... }: Get goes on only when the slice is non-empty
MutexGetReady(q) == Len(q) # 0
\* item := q.items[0]
MutexGetItem(q) == q[1]
\* q.items = q.items[1:]
MutexGetRest(q) == SubSeq(q, 2, Len(q))
\* return len(q.items)
MutexSize(q) == Len(q)

\* C25: the token queue refines the lock-protected sequence queue. With the abstract
\* sequence taken to be the contents carried by the token, a Put, Get or Size with a
\* never-cancelled signal takes effect at its token acquisition as the mutex queue's
\* operation does under the lock (Put appends, Get goes on only when the sequence is
\* non-empty and takes its first element, Size reads the length), its other steps
\* leave the abstract sequence alone, and it returns the mutex queue's result.
C25_RefinesMutexQueue ==
    /\ [][\A p \in Threads :
            (At(p, "Put", "select") /\ ctx[p] = "never" /\ pc'[p] # pc[p])
                => Contents' = MutexPut(Contents, arg[p])]_vars
    /\ [][\A p \in Threads :
            (At(p, "Get", "select") /\ ctx[p] = "never" /\ pc'[p] # pc[p])
                => /\ MutexGetReady(Contents)
                   /\ arg'[p] = MutexGetItem(Contents)
                   /\ Contents' = MutexGetRest(Contents)]_vars
    /\ [][\A p \in Threads :
            (/\ op[p] \in {"Put", "Get", "Size"} /\ pc'[p] # pc[p]
             /\ pc[p] \in {"send", "ret"} \/ op[p] = "Size")
                => Contents' = Contents]_vars
    /\ [][\A p \in Threads :
            (pc[p] # "done" /\ pc'[p] = "done" /\ ctx[p] \in {"never", "none"})
                => /\ op[p] = "Put" => ret'[p].st = "nil"
                   /\ op[p] = "Get" => (ret'[p].st = "nil" /\ ret'[p].val = arg[p])
                   /\ op[p] = "Size" => ret'[p].val = MutexSize(Contents)]_vars

\* A Get returned the first of three elements put and a Size returned the length 2
\* of what was left.
C25_Witness ==
    \E p, q \in Threads :
        /\ pc[p] = "done" /\ op[p] = "Get" /\ ctx[p] = "never"
        /\ ret[p].st = "nil" /\ ret[p].val = committed[1]
        /\ pc[q] = "done" /\ op[q] = "Size" /\ ret[q].val = 2
        /\ Len(committed) = 3 /\ delivered = <<committed[1]>>

\* C26 as stated: in every reachable state in which the queue holds no elements, other
\* calls in progress or not, an IsEmpty that runs returns true.
C26_IsEmptyAsStated ==
    [][\A p \in Threads :
        (At(p, "IsEmpty", "select") /\ pc'[p] = "done" /\ QueueLen = 0)
            => ret'[p].st = "true"]_vars

\* C26 amended: IsEmpty returns true exactly if the unit token is in emptySlot. A true
\* result is given only when the queue holds no elements, and it is given whenever the
\* queue holds no elements and no operation owns the token; while an operation owns
\* the empty-token, IsEmpty returns false although the queue holds no elements.
C26_IsEmptyAmended ==
    [][\A p \in Threads :
        (At(p, "IsEmpty", "select") /\ pc'[p] = "done")
            => /\ ret'[p].st \in {"true", "false"}
               /\ ret'[p].st = "true" <=> empty = 1
               /\ ret'[p].st = "true" => QueueLen = 0
               /\ (QueueLen = 0 /\ Owners = {}) => ret'[p].st = "true"
               /\ (QueueLen = 0 /\ Owners # {}) => ret'[p].st = "false"]_vars

\* IsEmpty returned false on a queue that never held an element, while a Size owns
\* the empty-token.
C26_Witness ==
    \E p, q \in Threads :
        /\ pc[p] = "done" /\ op[p] = "IsEmpty" /\ ret[p].st = "false"
        /\ At(q, "Size", "send") /\ took[q] = "empty"
        /\ committed = <<>>

\* C30: Get's republish rule. When Get or TryGet acquires an items-token carrying the
\* sequence sq it keeps sq[1] to return and sq without its head to republish; when it
\* returns, the value is that head, and the unit token is in emptySlot with itemsSlot
\* vacant if sq had exactly one element, otherwise the remaining elements, in order,
\* are in itemsSlot with emptySlot vacant.
C30_GetRepublishRule ==
    /\ [][\A p \in Threads :
            (op[p] \in {"Get", "TryGet"} /\ pc[p] = "select" /\ pc'[p] = "send")
                => /\ items # <<>> /\ Len(Head(items)) >= 1
                   /\ arg'[p] = Head(items)[1]
                   /\ s'[p] = SubSeq(Head(items), 2, Len(Head(items)))]_vars
    /\ [][\A p \in Threads :
            (op[p] \in {"Get", "TryGet"} /\ pc[p] = "send" /\ pc'[p] # pc[p])
                => /\ pc'[p] = "done" /\ ret'[p].val = arg[p]
                   /\ ret'[p].st = (IF op[p] = "Get" THEN "nil" ELSE "true")
                   /\ IF Len(s[p]) = 0
                      THEN empty' = 1 /\ items' = <<>>
                      ELSE items' = <<s[p]>> /\ empty' = 0]_vars

\* A TryGet took the head of a two-element queue and left the other element in
\* itemsSlot; a Get then took that one and left the unit token in emptySlot.
C30_Witness ==
    \E p, q \in Threads :
        /\ pc[p] = "done" /\ op[p] = "TryGet" /\ ret[p].st = "true"
        /\ pc[q] = "done" /\ op[q] = "Get" /\ ret[q].st = "nil"
        /\ committed = <<ret[p].val, ret[q].val>> /\ delivered = committed
        /\ empty = 1 /\ items = <<>>

\* C27: SyncPool.Get on a pool with no New function and nothing stored returns T's
\* zero value without failing; with a New function set and nothing stored it returns
\* the value produced by New.
C27_PoolGetZeroOrNew ==
    (poolOp = "Get" /\ poolPc \in {"done", "panic"} /\ poolItems = <<>>) =>
        /\ ~poolNew.set => (poolPc = "done" /\ poolRet = Zero)
        /\ (poolNew.set /\ poolNew.isT) => (poolPc = "done" /\ poolRet = poolNew.v)

\* C28: SyncPool.Put(x) terminates and stores x: a Put that is called returns, and
\* then x is held by the pool for the next Get.
C28_PoolPutStores ==
    (poolPc = "Put") ~> (poolPc = "done" /\ poolOp = "Put" /\ poolItems = <<poolArg>>)

\* The variables that hold a copy of the Atomic that MakeAtomic returned to h.
CopiesOf(h) == {g \in Handles : aorigin[g] = aorigin[h]}

\* C29: copies of an Atomic share storage. Right after a Store, a Swap or a successful
\* CompareAndSwap of x through a variable holding an Atomic made by MakeAtomic, a Load
\* through that variable and through every variable holding a copy of the same Atomic
\* returns x; and a Load returns the same through all of them at any time.
C29_AtomicCopiesShare ==
    /\ (/\ alast.st = "ok" /\ alast.ok
        /\ alast.op \in {"Store", "Swap", "CompareAndSwap"}
        /\ aorigin[alast.h] # NoCell)
            => \A g \in CopiesOf(alast.h) : LoadResult(g) = [ret |-> alast.x, st |-> "ok"]
    /\ \A h \in Handles :
            aorigin[h] # NoCell => \A g \in CopiesOf(h) : LoadResult(g) = LoadResult(h)

\* A Store through one copy is seen through the original and another copy, while an
\* Atomic made by another MakeAtomic call holds a different value.
C29_Witness ==
    \E h, g \in Handles :
        /\ alast.op = "Store" /\ alast.st = "ok" /\ alast.h # h
        /\ aorigin[h] # NoCell /\ CopiesOf(h) = Handles \ {g}
        /\ Cardinality(CopiesOf(h)) >= 2
        /\ aorigin[g] # NoCell /\ aorigin[g] # aorigin[h]
        /\ LoadResult(g).st = "ok" /\ LoadResult(g).ret # alast.x
        /\ alast.h \in CopiesOf(h) /\ LoadResult(h).ret = alast.x

\* C31: Put's effect. A Put or TryPut that acquires a token, whichever it is, holds
\* the queue's elements in their order followed by its own element, which is the one
\* element committed; the queue is then non-empty; and its republish puts that
\* sequence into itemsSlot and leaves emptySlot vacant.
C31_PutEffect ==
    /\ [][\A p \in Threads :
            (op[p] \in {"Put", "TryPut"} /\ pc[p] = "select" /\ pc'[p] = "send")
                => /\ s'[p] = Contents \o <<arg[p]>>
                   /\ committed' = Append(committed, arg[p])
                   /\ delivered' = delivered
                   /\ Contents' = s'[p] /\ QueueLen' > 0]_vars
    /\ [][\A p \in Threads :
            (op[p] \in {"Put", "TryPut"} /\ pc[p] = "send" /\ pc'[p] # pc[p])
                => /\ s[p] # <<>>
                   /\ items' = <<s[p]>> /\ empty' = 0
                   /\ UNCHANGED <<committed, delivered>>]_vars

\* A Put that took the empty-token and a TryPut that took the items-token have both
\* republished; the two elements are in itemsSlot in that order.
C31_Witness ==
    \E p, q \in Threads :
        /\ pc[p] = "done" /\ op[p] = "Put" /\ took[p] = "empty"
        /\ pc[q] = "done" /\ op[q] = "TryPut" /\ took[q] = "items"
        /\ items = << <<arg[p], arg[q]>> >> /\ empty = 0

\* C32: the blocking republish never blocks. Whenever Put, Get, Size or Snapshot is
\* about to send its token back, both slots are vacant and the send can be made; and a
\* Put that has sent can return.
C32_RepublishNeverBlocks ==
    \A p \in Procs :
        /\ (op[p] \in {"Put", "Get", "Size", "Snapshot"} /\ pc[p] = "send")
              => (items = <<>> /\ empty = 0 /\ ENABLED Step(p))
        /\ pc[p] = "ret" => ENABLED Step(p)

\* A Get whose signal has fired is about to republish while a Size waits for a token.
C32_Witness ==
    \E p, q \in Procs :
        /\ At(p, "Get", "send") /\ ctx[p] = "fired" /\ Len(s[p]) = 1
        /\ At(q, "Size", "select") /\ ~ENABLED Step(q)

\* C33 as stated: whenever TryGet returns found=false the queue holds no elements at
\* that instant, other calls in progress or not.
C33_NotFoundAsStated ==
    [][\A p \in Threads :
        (At(p, "TryGet", "select") /\ pc'[p] = "done") => QueueLen = 0]_vars

\* C33 amended: TryGet returns found=false exactly when itemsSlot is vacant at that
\* instant, which is when the queue holds no elements or another operation owns the
\* token; with no operation owning the token not-found means the queue is empty, and
\* while itemsSlot holds the token TryGet cannot report not-found.
C33_NotFoundAmended ==
    /\ [][\A p \in Threads :
            (At(p, "TryGet", "select") /\ pc'[p] = "done")
                => /\ ret'[p].st = "false"
                   /\ items = <<>>
                   /\ QueueLen = 0 \/ \E q \in Threads \ {p} : Owner(q)
                   /\ Owners = {} => (QueueLen = 0 /\ empty = 1)]_vars
    /\ [](\A p \in Procs :
            (At(p, "TryGet", "select") /\ items # <<>>)
                => (ENABLED TryGetRecvItems(p) /\ ~ENABLED TryGetDefault(p)))

\* A TryGet can only report not-found although the queue holds two elements: a Size
\* owns the items-token.
C33_Witness ==
    \E p, q \in Procs :
        /\ At(p, "TryGet", "select")
        /\ ENABLED TryGetDefault(p) /\ ~ENABLED TryGetRecvItems(p)
        /\ At(q, "Size", "send") /\ took[q] = "items"
        /\ QueueLen = 2

\* C34: IsEmpty is a pure peek that never over-reports emptiness. The step IsEmpty
\* takes changes no slot and no history and acquires nothing, and when it returns true
\* the unit token is in emptySlot at that instant, the queue holds no elements and no
\* operation owns the token.
C34_IsEmptyPurePeek ==
    [][\A p \in Threads :
        (op[p] = "IsEmpty" /\ pc[p] = "select" /\ pc'[p] # pc[p])
            => /\ UNCHANGED <<items, empty, committed, delivered>>
               /\ pc'[p] = "done" /\ took'[p] = "none"
               /\ ret'[p].st = "true" =>
                     (empty = 1 /\ items = <<>> /\ QueueLen = 0 /\ Owners = {})]_vars

\* IsEmpty returned true on a queue that had held two elements, while a Get waits.
C34_Witness ==
    \E p, q \in Threads :
        /\ pc[p] = "done" /\ op[p] = "IsEmpty" /\ ret[p].st = "true"
        /\ At(q, "Get", "select")
        /\ Len(delivered) = 2 /\ QueueLen = 0 /\ empty = 1

\* C35: Get and Snapshot report success unconditionally once committed. A Get that
\* acquired the items-token returns the head it removed with a nil error and a
\* Snapshot that acquired a token returns its copy with a nil error, whether or not
\* the signal has fired since; a Get that returned an error returned no element and
\* took nothing; and an element removed by a Get that has not returned yet is held by
\* that Get, which can take its next step.
C35_SuccessOnceCommitted ==
    /\ [][\A p \in Threads :
            (op[p] \in {"Get", "Snapshot"} /\ pc[p] = "send" /\ pc'[p] # pc[p])
                => /\ pc'[p] = "done" /\ ret'[p].st = "nil"
                   /\ op[p] = "Get" => ret'[p].val = arg[p]
                   /\ op[p] = "Snapshot" => ret'[p].seq = s[p]]_vars
    /\ [](\A p \in Procs :
            At(p, "Get", "send")
                => /\ delivered # <<>> /\ arg[p] = delivered[Len(delivered)]
                   /\ ENABLED Step(p))
    /\ [](\A p \in Threads :
            (pc[p] = "done" /\ op[p] = "Get")
                => \/ ret[p].st = "nil" /\ took[p] = "items" /\ ret[p].val \in Range(delivered)
                   \/ ret[p].st = "cancelled" /\ took[p] = "none" /\ ret[p].val = 0)

\* A Get whose signal has fired returned the head of a two-element queue with a
\* nil error.
C35_Witness ==
    \E p \in Threads :
        /\ pc[p] = "done" /\ op[p] = "Get" /\ ctx[p] = "fired"
        /\ ret[p].st = "nil" /\ ret[p].val = committed[1]
        /\ delivered = <<committed[1]>> /\ Len(committed) = 2

\* C36: a waiting Get holds nothing. Get and TryGet take a token only from itemsSlot:
\* no step of theirs takes the unit token out of emptySlot, a Get waiting at its
\* select owns nothing, and while the unit token is in emptySlot a Put, TryPut, Size or
\* Snapshot of another goroutine can acquire it, however many Gets are waiting.
C36_WaitingGetHoldsNothing ==
    /\ [][\A p \in Threads :
            (op[p] \in {"Get", "TryGet"} /\ pc[p] = "select" /\ pc'[p] # pc[p])
                => /\ empty' = empty
                   /\ pc'[p] = "send" => (took'[p] = "items" /\ items # <<>>)]_vars
    /\ [](\A p \in Threads :
            At(p, "Get", "select") => (~Owner(p) /\ took[p] = "none" /\ s[p] = <<>>))
    /\ []((Owners = {} /\ QueueLen = 0) => empty = 1)
    /\ [](\A q \in Procs :
            (/\ empty = 1 /\ pc[q] = "select"
             /\ op[q] \in {"Put", "TryPut", "Size", "Snapshot"})
                => ENABLED (Step(q) /\ took'[q] = "empty"))

\* A Put has acquired the empty-token while a Get with a never-cancelled signal waits
\* on the empty queue.
C36_Witness ==
    \E p, q \in Procs :
        /\ At(p, "Get", "select") /\ ctx[p] = "never"
        /\ At(q, "Put", "send") /\ took[q] = "empty"
        /\ committed = <<arg[q]>> /\ delivered = <<>>

====
